---- MODULE Spec2Model ----
(***************************************************************************)
(* Engine-range resolution of the node-support-range extension.            *)
(*                                                                         *)
(* A semantic version "M.m.p" is the triple <<M, m, p>>.  A range string   *)
(* is the sequence of its tokens (comparators, carets, "||", or a word     *)
(* that is no comparator).  The JavaScript value null is the empty tuple,  *)
(* and an absent or empty string field is the empty token sequence.        *)
(***************************************************************************)
EXTENDS Integers, Sequences, FiniteSets, TLC

VARIABLES
    impl,           \* which analyzer runs: "includes", "helper" or "service"
    manifest,       \* the project's package.json as found on disk
    pc,             \* position of the analysis run
    dependencies,   \* Object.keys of the merged dependency object
    depCount,       \* number of dependencies taken from the loop so far
    allNodeRanges,  \* collected engines.node range strings
    allNpmRanges,   \* collected engines.npm range strings
    result,         \* the ProjectAnalysisResult being returned
    returned,       \* "none", "null", "result" or "throw"
    thrown,         \* what raised the exception that ended the run
    errorMessages,  \* window.showErrorMessage calls, in order
    lookups,        \* dependency metadata reads, in order, with what was read
    warnings,       \* console.warn calls of the resolver's catch blocks, in order
    progressLog,    \* progress.report calls that were delivered, in order
    fmtMin,         \* formatVersionRange: argument minVersion
    fmtMax,         \* formatVersionRange: argument maxVersion
    fmtOut,         \* formatVersionRange: returned value
    fmtPc,          \* formatVersionRange: "idle", "call" or "returned"
    document,       \* the project's package.json as openTextDocument finds it
    nodeEngineString,   \* manifest update: argument nodeEngineString
    npmEngineString,    \* manifest update: argument npmEngineString
    updateRequests, \* manifest updates still to be carried out
    edits,          \* workspace.applyEdit calls, in order, with the new text
    applyResults,   \* what each workspace.applyEdit call resolved to
    updateReturned, \* how the last manifest update call ended
    infoMessages,   \* window.showInformationMessage calls, in order
    cmdPc,          \* position of the analyze command
    workspaceEnv,   \* the command's uri argument and the editor's workspace
    workspaceFolder,    \* what determineWorkspaceFolder returned
    selection,      \* the button chosen in the recommendation dialog
    folderPicks,    \* window.showWorkspaceFolderPick calls of the command
    hoverLines,     \* provideHover: the lines of the document
    hoverPosition,  \* provideHover: the position hovered
    hoverResult,    \* provideHover: returned value
    hoverPc,        \* provideHover: "idle", "call" or "returned"
    catRaw,         \* catalog construction: the raw list
    catKind,        \* catalog construction: "runtime" or "package-manager"
    catOut,         \* catalog construction: what the construction gave
    catPc,          \* catalog construction: "idle", "call", "built", "rebuilt"
    runs,           \* overlapping analyze calls: the locals of each call
    arrays,         \* overlapping analyze calls: the constraint arrays
    catalogs        \* overlapping analyze calls: the module-level catalogs

vars == <<impl, manifest, pc, dependencies, depCount, allNodeRanges,
          allNpmRanges, result, returned, thrown, errorMessages, lookups, warnings,
          progressLog, fmtMin, fmtMax, fmtOut, fmtPc, document,
          nodeEngineString, npmEngineString, updateRequests, edits,
          applyResults, updateReturned,
          infoMessages, cmdPc, workspaceEnv, workspaceFolder, selection,
          folderPicks,
          hoverLines, hoverPosition, hoverResult, hoverPc,
          catRaw, catKind, catOut, catPc, runs, arrays, catalogs>>

analysisVars == <<impl, manifest, pc, dependencies, depCount, allNodeRanges,
                  allNpmRanges, result, returned, thrown, errorMessages,
                  lookups, warnings, progressLog>>

formatVars == <<fmtMin, fmtMax, fmtOut, fmtPc>>

updateVars == <<document, nodeEngineString, npmEngineString, updateRequests,
                edits, applyResults, updateReturned, infoMessages>>

commandVars == <<cmdPc, workspaceEnv, workspaceFolder, selection,
                 folderPicks>>

hoverVars == <<hoverLines, hoverPosition, hoverResult, hoverPc>>

catalogVars == <<catRaw, catKind, catOut, catPc>>

concurrentVars == <<runs, arrays, catalogs>>

\* Largest number of dependency entries (dependencies plus devDependencies)
\* of an analysed manifest.
MaxDeps == 2

null == <<>>

Absent == <<>>

Last(s) == s[Len(s)]

-----------------------------------------------------------------------------
(* semver: versions, precedence, ranges                                    *)

\* A raw catalog entry that is a semantic version string.
Ver(a, b, c) == [semver |-> <<a, b, c>>]

\* A raw catalog entry that is a release-channel alias such as "lts/iron".
Alias(name) == [alias |-> name]

\* semver.valid: the parsed version, or null for a string that is none.
valid(e) == IF "semver" \in DOMAIN e THEN e.semver ELSE null

\* semver.compare on two versions: -1, 0 or 1 by major, minor, patch.
compare(a, b) ==
    IF a[1] # b[1] THEN (IF a[1] < b[1] THEN -1 ELSE 1)
    ELSE IF a[2] # b[2] THEN (IF a[2] < b[2] THEN -1 ELSE 1)
    ELSE IF a[3] # b[3] THEN (IF a[3] < b[3] THEN -1 ELSE 1)
    ELSE 0

\* Array.prototype.filter(v => valid(v)) on a raw list.
FilterValid(raw) == SelectSeq(raw, LAMBDA e : valid(e) # null)

\* An insertion that ignores the order.
InsertAtFront(x, s) == <<x>> \o s

RECURSIVE InsertByCompare(_, _)
\* One step of the stable sort: x goes behind every element not above it.
InsertByCompare(x, s) ==
    IF s = <<>> THEN <<x>>
    ELSE IF compare(valid(x), valid(Head(s))) < 0 THEN <<x>> \o s
    ELSE <<Head(s)>> \o InsertByCompare(x, Tail(s))

RECURSIVE SortDescending(_)
SortDescending(s) ==
    IF s = <<>> THEN <<>>
    ELSE LET rest == SortDescending(Tail(s))
             lower == SelectSeq(rest, LAMBDA e : compare(valid(e), valid(Head(s))) < 0)
             upper == SelectSeq(rest, LAMBDA e : compare(valid(e), valid(Head(s))) >= 0)
         IN  upper \o <<Head(s)>> \o lower

RECURSIVE SortByCompare(_)
\* Array.prototype.sort(compare): ascending by semver precedence, stable.
SortByCompare(s) ==
    IF s = <<>> THEN <<>>
    ELSE InsertByCompare(Last(s), SortByCompare(SubSeq(s, 1, Len(s) - 1)))

\* The version strings of a list of valid entries.
SemVers(s) == [i \in DOMAIN s |-> valid(s[i])]

\* Range-string tokens.
Cmp(o, a, b, c) == [op |-> o, v |-> <<a, b, c>>]

OrBar == [op |-> "||", v |-> <<0, 0, 0>>]

Word == [op |-> "word", v |-> <<0, 0, 0>>]

ComparatorOps == {">=", ">", "<", "<=", "=", "^"}

RECURSIVE SplitOr(_)
\* String.split("||"): the token lists between the "||" tokens.
SplitOr(r) ==
    IF \A i \in DOMAIN r : r[i].op # "||" THEN <<r>>
    ELSE LET k == CHOOSE i \in DOMAIN r :
                      r[i].op = "||" /\ \A j \in 1..(i - 1) : r[j].op # "||"
         IN  <<SubSeq(r, 1, k - 1)>> \o SplitOr(SubSeq(r, k + 1, Len(r)))

\* new Range(r) succeeds: every token between the "||" is a comparator.
ValidRange(r) == \A i \in DOMAIN r : r[i].op \in ComparatorOps \cup {"||"}

\* Comparator.test, with a caret comparator as its desugared pair
\* >=M.m.p <(M+1).0.0 (major above zero).
TestComparator(c, version) ==
    CASE c.op = ">=" -> compare(version, c.v) >= 0
      [] c.op = ">"  -> compare(version, c.v) > 0
      [] c.op = "<"  -> compare(version, c.v) < 0
      [] c.op = "<=" -> compare(version, c.v) <= 0
      [] c.op = "="  -> compare(version, c.v) = 0
      [] c.op = "^"  -> /\ compare(version, c.v) >= 0
                        /\ compare(version, <<c.v[1] + 1, 0, 0>>) < 0
      [] OTHER       -> FALSE

\* Range.test: some "||" alternative has all its comparators pass.
TestRange(r, version) ==
    LET alts == SplitOr(r)
    IN  \E i \in DOMAIN alts :
            \A j \in DOMAIN alts[i] : TestComparator(alts[i][j], version)

\* satisfies with an invalid range skipped instead of failed.
SatisfiesUnlessInvalid(version, rangeStr) ==
    IF ValidRange(rangeStr) THEN TestRange(rangeStr, version) ELSE TRUE

\* semver.satisfies(version, rangeStr, { includePrerelease: false }) inside
\* the try/catch of the filter callback: an invalid range gives false.
satisfies(version, rangeStr) ==
    IF ValidRange(rangeStr) THEN TestRange(rangeStr, version) ELSE FALSE

-----------------------------------------------------------------------------
(* Reference version catalogs                                              *)

\* src/shared/constants.js: the raw lists as written.
SHARED_NODEJS_RAW ==
    << Ver(18, 0, 0), Ver(18, 12, 0), Ver(18, 19, 1), Ver(18, 20, 3),
       Ver(20, 0, 0), Ver(20, 5, 0), Ver(20, 11, 1), Ver(20, 15, 1),
       Ver(21, 0, 0), Ver(21, 7, 3), Ver(22, 0, 0), Ver(22, 4, 1) >>

SHARED_NPM_RAW ==
    << Ver(8, 0, 0), Ver(8, 19, 4), Ver(9, 0, 0), Ver(9, 9, 3),
       Ver(10, 0, 0), Ver(10, 8, 1) >>

\* constants.js of the helper module and config/constants.js of the service:
\* the same raw lists, release-channel aliases included.
NODEJS_VERSIONS_WITH_ALIASES ==
    << Alias("lts/hydrogen"), Ver(18, 20, 8), Alias("lts/iron"),
       Ver(20, 19, 1), Alias("lts/jod"), Ver(22, 15, 0), Ver(24, 0, 1) >>

NPM_VERSIONS_RAW == << Ver(10, 8, 2), Ver(10, 9, 2), Ver(11, 3, 0) >>

\* [...].sort(compare)
SortOnly(raw) == SemVers(SortByCompare(raw))

\* [...].filter(v => valid(v)).sort(compare)
getNodeVersions(raw) == SemVers(SortByCompare(FilterValid(raw)))

\* src/shared/constants.js: COMMON_NODEJS_VERSIONS and COMMON_NPM_VERSIONS.
SHARED_NODEJS_VERSIONS == SortOnly(SHARED_NODEJS_RAW)

SHARED_NPM_VERSIONS == SortOnly(SHARED_NPM_RAW)

\* constants.js / config/constants.js: the filtered runtime catalog and the
\* package-manager catalog.
ALIASED_NODEJS_VERSIONS == getNodeVersions(NODEJS_VERSIONS_WITH_ALIASES)

NPM_VERSIONS == SortOnly(NPM_VERSIONS_RAW)

\* The runtime catalog each analyzer imports.
COMMON_NODEJS_VERSIONS(i) ==
    IF i = "includes" THEN SHARED_NODEJS_VERSIONS ELSE ALIASED_NODEJS_VERSIONS

\* The package-manager catalog each analyzer imports.
COMMON_NPM_VERSIONS(i) ==
    IF i = "includes" THEN SHARED_NPM_VERSIONS ELSE NPM_VERSIONS

\* DEFAULT_NODE_VERSION_RANGE: ">=0.10.0"
DEFAULT_NODE_VERSION_RANGE == << Cmp(">=", 0, 10, 0) >>

-----------------------------------------------------------------------------
(* Inputs: what the analysis can find on disk                              *)

\* ">=18.0.0 <20.0.0"
Range18to20 == << Cmp(">=", 18, 0, 0), Cmp("<", 20, 0, 0) >>

\* ">=20.0.0 <21.0.0"
Range20to21 == << Cmp(">=", 20, 0, 0), Cmp("<", 21, 0, 0) >>

\* "^18.0.0 || ^22.0.0"
Range18or22 == << Cmp("^", 18, 0, 0), OrBar, Cmp("^", 22, 0, 0) >>

\* "not-a-range"
MalformedRange == << Word >>

\* ">=10.0.0 <11.0.0"
Npm10to11 == << Cmp(">=", 10, 0, 0), Cmp("<", 11, 0, 0) >>

NodeRangeStrings == {Range18to20, Range20to21, Range18or22, MalformedRange}

NpmRangeStrings == {Npm10to11, MalformedRange}

DepNames == 1..MaxDeps

\* A dependency's package.json as the lookup finds it: missing, not JSON,
\* or parsed with or without an engines object.
DepMetadata ==
    { [read |-> r, hasEngines |-> FALSE, node |-> Absent, npm |-> Absent] :
        r \in {"missing", "unparsable", "ok"} }
    \cup
    { [read |-> "ok", hasEngines |-> TRUE, node |-> n, npm |-> m] :
        n \in NodeRangeStrings \cup {Absent}, m \in NpmRangeStrings \cup {Absent} }

DistinctSeqs(S, n) ==
    { s \in [1..n -> S] : \A i, j \in 1..n : i # j => s[i] # s[j] }

\* The merge without the devDependencies.
MergeKeysDepsOnly(deps, devDeps) == deps

\* Object spread { ...dependencies, ...devDependencies } followed by
\* Object.keys: the keys of the first in order, then the new keys of the second.
MergeKeys(deps, devDeps) ==
    deps \o SelectSeq(devDeps, LAMBDA d : \A i \in DOMAIN deps : deps[i] # d)

\* Project manifests: absent, not JSON, or parsed with its two dependency
\* sections.  Names are numbered in order of first appearance.
Manifests ==
    { [status |-> s, deps |-> <<>>, devDeps |-> <<>>] :
        s \in {"absent", "unparsable"} }
    \cup
    { [status |-> "ok", deps |-> d, devDeps |-> v] :
        d \in UNION { DistinctSeqs(DepNames, n) : n \in 0..MaxDeps },
        v \in UNION { DistinctSeqs(DepNames, n) : n \in 0..MaxDeps } }

CanonicalNames(m) ==
    LET keys == MergeKeys(m.deps, m.devDeps)
    IN  /\ Len(m.deps) + Len(m.devDeps) <= MaxDeps
        /\ \A i \in DOMAIN keys : keys[i] = i

Impls == {"includes", "helper", "service"}

-----------------------------------------------------------------------------
(* The analysis: collection and resolution                                 *)

NOTE_NO_DEPENDENCIES == "No dependencies to analyze."

NoNote == ""

NoResult ==
    [minNode |-> null, maxNode |-> null, minNpm |-> null, maxNpm |-> null,
     note |-> NoNote]

\* readPackageJson of the service rethrows a JSON.parse failure; the two
\* function analyzers catch it around each dependency.
ReadThrows(i, meta) == i = "service" /\ meta.read = "unparsable"

\* The runtime list given the default whenever no node entry was read.
PushNodeRangeDefaultWithoutNode(ranges, meta) ==
    IF meta.read = "ok" /\ meta.hasEngines /\ meta.node # Absent
    THEN Append(ranges, meta.node)
    ELSE Append(ranges, DEFAULT_NODE_VERSION_RANGE)

\* The runtime list given no default for readable metadata.
PushNodeRangeNoDefaultWhenRead(ranges, meta) ==
    IF meta.read = "ok"
    THEN IF meta.hasEngines /\ meta.node # Absent
         THEN Append(ranges, meta.node) ELSE ranges
    ELSE Append(ranges, DEFAULT_NODE_VERSION_RANGE)

\* What one dependency adds to the runtime list.
PushNodeRange(ranges, meta) ==
    IF meta.read = "ok" /\ meta.hasEngines
    THEN IF meta.node # Absent THEN Append(ranges, meta.node) ELSE ranges
    ELSE Append(ranges, DEFAULT_NODE_VERSION_RANGE)

\* DEFAULT_NPM_VERSION_RANGE: ">=5.0.0"
DEFAULT_NPM_VERSION_RANGE == << Cmp(">=", 5, 0, 0) >>

\* The package-manager list given a default the way the runtime list is.
PushNpmRangeWithDefault(ranges, meta) ==
    IF meta.read = "ok" /\ meta.hasEngines
    THEN IF meta.npm # Absent THEN Append(ranges, meta.npm) ELSE ranges
    ELSE Append(ranges, DEFAULT_NPM_VERSION_RANGE)

\* The package-manager list fed from either entry of the engines object.
PushNpmRangeOrNode(ranges, meta) ==
    IF meta.read = "ok" /\ meta.hasEngines
    THEN IF meta.npm # Absent THEN Append(ranges, meta.npm)
         ELSE IF meta.node # Absent THEN Append(ranges, meta.node)
         ELSE ranges
    ELSE ranges

\* What one dependency adds to the package-manager list.
PushNpmRange(ranges, meta) ==
    IF meta.read = "ok" /\ meta.hasEngines /\ meta.npm # Absent
    THEN Append(ranges, meta.npm)
    ELSE ranges

\* The filter with some() in place of every().
CompatibleWithSomeRange(catalog, ranges) ==
    SelectSeq(catalog,
              LAMBDA version :
                  \E i \in DOMAIN ranges : satisfies(version, ranges[i]))

\* The filter that tests the last range of the list alone.
CompatibleWithLastRange(catalog, ranges) ==
    SelectSeq(catalog,
              LAMBDA version :
                  ranges = <<>> \/ satisfies(version, ranges[Len(ranges)]))

\* catalog.filter(version => ranges.every(rangeStr => satisfies(...)))
CompatibleVersions(catalog, ranges) ==
    SelectSeq(catalog,
              LAMBDA version :
                  \A i \in DOMAIN ranges : satisfies(version, ranges[i]))

\* The runtime range without its "dependencies exist" branch.
calculateNodeRangeNoDefault(catalog, nodeRanges, hasDependencies) ==
    IF Len(nodeRanges) > 0
    THEN LET compatible == CompatibleVersions(catalog, nodeRanges)
         IN  IF Len(compatible) > 0
             THEN [min |-> compatible[1], max |-> Last(compatible)]
             ELSE [min |-> null, max |-> null]
    ELSE [min |-> null, max |-> null]

\* "Calculate Node range": first and last compatible version, the whole
\* catalog when dependencies exist but the list is empty.
calculateNodeRange(catalog, nodeRanges, hasDependencies) ==
    IF Len(nodeRanges) > 0
    THEN LET compatible == CompatibleVersions(catalog, nodeRanges)
         IN  IF Len(compatible) > 0
             THEN [min |-> compatible[1], max |-> Last(compatible)]
             ELSE [min |-> null, max |-> null]
    ELSE IF hasDependencies /\ Len(catalog) > 0
         THEN [min |-> catalog[1], max |-> Last(catalog)]
         ELSE [min |-> null, max |-> null]

\* "Calculate NPM range": first and last compatible version.
calculateNpmRange(catalog, npmRanges) ==
    IF Len(npmRanges) > 0
    THEN LET compatible == CompatibleVersions(catalog, npmRanges)
         IN  IF Len(compatible) > 0
             THEN [min |-> compatible[1], max |-> Last(compatible)]
             ELSE [min |-> null, max |-> null]
    ELSE [min |-> null, max |-> null]

\* What semver's satisfies does with a range it cannot parse: FALSE when it
\* returns false itself, TRUE when the error reaches the callback's catch.
SatisfiesThrowsOutcomes == BOOLEAN

\* The first range of the list that every() finds unsatisfied by the
\* version, 0 when all are satisfied.
FirstUnsatisfied(version, ranges) ==
    IF \A i \in DOMAIN ranges : satisfies(version, ranges[i])
    THEN 0
    ELSE CHOOSE i \in DOMAIN ranges :
            /\ ~satisfies(version, ranges[i])
            /\ \A j \in 1..(i - 1) : satisfies(version, ranges[j])

\* console.warn(`Invalid semver range "${rangeStr}" ... version ${version}.`)
Warning(kind, rangeStr, version) ==
    [kind |-> kind, range |-> rangeStr, version |-> version]

\* The warnings of one filter: for each catalog version in order, the
\* callback's catch warns when satisfies throws on the range it stops at.
RangeWarnings(kind, catalog, ranges, throws) ==
    LET stopped ==
            SelectSeq(catalog,
                      LAMBDA version :
                          /\ throws
                          /\ FirstUnsatisfied(version, ranges) # 0
                          /\ ~ValidRange(ranges[FirstUnsatisfied(version, ranges)]))
    IN  [k \in 1..Len(stopped) |->
            Warning(kind, ranges[FirstUnsatisfied(stopped[k], ranges)], stopped[k])]

\* progress.report either delivers the tick or throws.
SinkOutcomes == BOOLEAN

Tick(kind, num, den) == [message |-> kind, num |-> num, den |-> den]

Throw(cause) ==
    /\ pc' = "thrown"
    /\ returned' = "throw"
    /\ thrown' = cause

\* The per-dependency tick with the counter read before its increment.
AnalyzingTickBeforeIncrement(count, totalDeps) ==
    Tick("analyzing", (count - 1) * 80, totalDeps)

\* progress.report({ increment: (depCount / totalDeps) * 80, ... })
AnalyzingTick(count, totalDeps) == Tick("analyzing", count * 80, totalDeps)

\* existsSync / JSON.parse of the project's package.json.
LocateManifest ==
    /\ pc = "start"
    /\ IF manifest.status = "ok"
       THEN /\ pc' = "manifest-located"
            /\ UNCHANGED <<returned, thrown, errorMessages>>
       ELSE IF impl = "service"
       THEN IF manifest.status = "absent"
            THEN /\ pc' = "manifest-not-found"
                 /\ returned' = "null"
                 /\ UNCHANGED <<thrown, errorMessages>>
            ELSE /\ Throw("manifest-parse")
                 /\ UNCHANGED errorMessages
       ELSE /\ pc' = "manifest-not-found"
            /\ returned' = "null"
            /\ errorMessages' = Append(errorMessages, manifest.status)
            /\ UNCHANGED thrown
    /\ UNCHANGED <<impl, manifest, dependencies, depCount, allNodeRanges,
                   allNpmRanges, result, lookups, warnings,
                   progressLog>>
    /\ UNCHANGED <<formatVars, hoverVars, catalogVars,
                   concurrentVars, updateVars, commandVars>>

\* The merged dependency object, the early return on an empty one, and the
\* "Scanning dependencies..." tick.
CollectDependencies ==
    /\ pc = "manifest-located"
    /\ dependencies' = MergeKeys(manifest.deps, manifest.devDeps)
    /\ IF Len(dependencies') = 0
       THEN /\ pc' = "no-dependencies"
            /\ returned' = "result"
            /\ result' = [NoResult EXCEPT !.note = NOTE_NO_DEPENDENCIES]
            /\ UNCHANGED <<thrown, progressLog>>
       ELSE \E delivered \in SinkOutcomes :
                IF delivered
                THEN /\ progressLog' = Append(progressLog, Tick("scanning", 10, 1))
                     /\ pc' = "collecting"
                     /\ UNCHANGED <<returned, thrown, result>>
                ELSE /\ Throw("sink")
                     /\ UNCHANGED <<result, progressLog>>
    /\ UNCHANGED <<impl, manifest, depCount, allNodeRanges, allNpmRanges,
                   errorMessages, lookups, warnings>>
    /\ UNCHANGED <<formatVars, hoverVars, catalogVars,
                   concurrentVars, updateVars, commandVars>>

\* One pass of the loop over Object.keys(dependencies): the tick, the read
\* of the dependency's package.json, the pushes.
AnalyzeDependency ==
    /\ pc = "collecting"
    /\ depCount < Len(dependencies)
    /\ depCount' = depCount + 1
    /\ \E delivered \in SinkOutcomes, meta \in DepMetadata :
          IF ~delivered
          THEN /\ Throw("sink")
               /\ UNCHANGED <<allNodeRanges, allNpmRanges, lookups, progressLog>>
          ELSE /\ progressLog' =
                      Append(progressLog,
                             AnalyzingTick(depCount', Len(dependencies)))
               /\ lookups' =
                      Append(lookups, [dep |-> dependencies[depCount'], meta |-> meta])
               /\ IF ReadThrows(impl, meta)
                  THEN /\ Throw("dependency-parse")
                       /\ UNCHANGED <<allNodeRanges, allNpmRanges>>
                  ELSE /\ allNodeRanges' = PushNodeRange(allNodeRanges, meta)
                       /\ allNpmRanges' = PushNpmRange(allNpmRanges, meta)
                       /\ UNCHANGED <<pc, returned, thrown>>
    /\ UNCHANGED <<impl, manifest, dependencies, result, errorMessages,
                   warnings>>
    /\ UNCHANGED <<formatVars, hoverVars, catalogVars,
                   concurrentVars, updateVars, commandVars>>

\* After the loop: the "Calculating version ranges..." tick, both ranges,
\* the final tick and the return.
CalculateRanges ==
    /\ pc = "collecting"
    /\ depCount = Len(dependencies)
    /\ \E calculating \in SinkOutcomes, finished \in SinkOutcomes :
          LET node == calculateNodeRange(COMMON_NODEJS_VERSIONS(impl),
                                         allNodeRanges, Len(dependencies) > 0)
              npm  == calculateNpmRange(COMMON_NPM_VERSIONS(impl), allNpmRanges)
              warned(throws) ==
                  RangeWarnings("node", COMMON_NODEJS_VERSIONS(impl),
                                allNodeRanges, throws)
                  \o RangeWarnings("npm", COMMON_NPM_VERSIONS(impl),
                                   allNpmRanges, throws)
          IN  IF ~calculating
              THEN /\ Throw("sink")
                   /\ UNCHANGED <<result, progressLog, warnings>>
              ELSE IF ~finished
              THEN /\ Throw("sink")
                   /\ progressLog' = Append(progressLog, Tick("calculating", 90, 1))
                   /\ \E throws \in SatisfiesThrowsOutcomes :
                         warnings' = warned(throws)
                   /\ UNCHANGED result
              ELSE /\ progressLog' = progressLog \o
                          << Tick("calculating", 90, 1), Tick("done", 100, 1) >>
                   /\ result' = [minNode |-> node.min, maxNode |-> node.max,
                                 minNpm |-> npm.min, maxNpm |-> npm.max,
                                 note |-> NoNote]
                   /\ \E throws \in SatisfiesThrowsOutcomes :
                         warnings' = warned(throws)
                   /\ pc' = "done"
                   /\ returned' = "result"
                   /\ UNCHANGED thrown
    /\ UNCHANGED <<impl, manifest, dependencies, depCount, allNodeRanges,
                   allNpmRanges, errorMessages, lookups>>
    /\ UNCHANGED <<formatVars, hoverVars, catalogVars,
                   concurrentVars, updateVars, commandVars>>

-----------------------------------------------------------------------------
(* formatVersionRange                                                      *)

JsNull == [t |-> "null", s |-> ""]

JsUndefined == [t |-> "undefined", s |-> ""]

JsStr(str) == [t |-> "string", s |-> str]

\* JavaScript truthiness of null, undefined and strings.
Truthy(x) == x.t = "string" /\ x.s # ""

\* The text "M.m.p" of a version.
VersionString(v) ==
    ToString(v[1]) \o "." \o ToString(v[2]) \o "." \o ToString(v[3])

\* The formatter without the separating space.
formatVersionRangeNoSpace(minVersion, maxVersion) ==
    IF ~Truthy(minVersion) /\ ~Truthy(maxVersion)
    THEN JsNull
    ELSE JsStr((IF Truthy(minVersion) THEN ">=" \o minVersion.s ELSE "")
               \o (IF Truthy(maxVersion) THEN "<=" \o maxVersion.s ELSE ""))

formatVersionRange(minVersion, maxVersion) ==
    IF ~Truthy(minVersion) /\ ~Truthy(maxVersion)
    THEN JsNull
    ELSE LET range0 == ""
             range1 == IF Truthy(minVersion)
                       THEN range0 \o ">=" \o minVersion.s
                       ELSE range0
             range2 == IF Truthy(maxVersion)
                       THEN (IF Truthy(minVersion) THEN range1 \o " " ELSE range1)
                            \o "<=" \o maxVersion.s
                       ELSE range1
         IN  JsStr(range2)

\* Arguments a caller can pass: null, undefined, the empty string, the
\* strings of the tests and the strings of the shared runtime catalog.
FormatInputs ==
    {JsNull, JsUndefined, JsStr(""), JsStr("12.0.0"), JsStr("16.0.0")}
    \cup { JsStr(VersionString(SHARED_NODEJS_VERSIONS[i])) :
             i \in DOMAIN SHARED_NODEJS_VERSIONS }

FormatCall ==
    /\ fmtPc = "call"
    /\ fmtOut' = formatVersionRange(fmtMin, fmtMax)
    /\ fmtPc' = "returned"
    /\ UNCHANGED <<fmtMin, fmtMax>>
    /\ UNCHANGED <<analysisVars, updateVars, commandVars, hoverVars,
                   catalogVars, concurrentVars>>

-----------------------------------------------------------------------------
(* The manifest update                                                     *)

\* A manifest without an engines field.
NoEngines ==
    [present |-> FALSE, node |-> JsUndefined, npm |-> JsUndefined,
     yarn |-> JsUndefined]

\* "engines": { "node": n, "npm": m, "yarn": y }, undefined entries left out.
Engines(n, m, y) == [present |-> TRUE, node |-> n, npm |-> m, yarn |-> y]

\* n leading spaces.
Spaces(n) == [i \in 1..n |-> "space"]

\* The whitespace in front of the first quoted key that starts a line.
Indents == { <<>>, Spaces(2), Spaces(4), <<"tab">> }

\* The text of a package.json: whether it parses, its name field, its
\* engines field and the whitespace in front of its first indented key
\* (none for a manifest written on one line).
DocumentsWith(nodeValues, npmValues, yarnValues, indents) ==
    { [opens |-> TRUE, parsable |-> TRUE, name |-> "test-project",
       engines |-> e, indent |-> i] :
        e \in {NoEngines} \cup
              { Engines(n, m, y) :
                  n \in nodeValues, m \in npmValues, y \in yarnValues },
        i \in indents }
    \cup
    { [opens |-> o, parsable |-> FALSE, name |-> "", engines |-> NoEngines,
       indent |-> <<>>] : o \in BOOLEAN }

\* A document whose text JSON.parse rejects.
NoDocument ==
    [opens |-> TRUE, parsable |-> FALSE, name |-> "", engines |-> NoEngines,
     indent |-> <<>>]

\* if (!packageJson.engines) { packageJson.engines = {} }
EnsureEngines(engines) == [engines EXCEPT !.present = TRUE]

\* An engine entry dropped when no string is given for it.
SetEngineOrRemove(current, engineString) ==
    IF Truthy(engineString) THEN engineString ELSE JsUndefined

\* if (engineString && engines.x !== engineString) engines.x = engineString
SetEngine(current, engineString) ==
    IF Truthy(engineString) /\ current # engineString
    THEN engineString
    ELSE current

\* The parsed manifest after both assignments.
MergedEngines(doc, nodeString, npmString) ==
    [EnsureEngines(doc.engines) EXCEPT !.node = SetEngine(@, nodeString),
                                       !.npm = SetEngine(@, npmString)]

\* The updated flag set on every call.
UpdatedAlways(doc, nodeString, npmString) == TRUE

\* The updated flag: some given string differs from the manifest's entry.
Updated(doc, nodeString, npmString) ==
    \/ Truthy(nodeString) /\ doc.engines.node # nodeString
    \/ Truthy(npmString) /\ doc.engines.npm # npmString

DEFAULT_JSON_INDENT == 2

\* doc.getText().match(/^(\s+)"/m): indentMatch[1].length, or the default.
DetectIndent(doc) ==
    IF doc.indent # <<>> THEN Len(doc.indent) ELSE DEFAULT_JSON_INDENT

\* JSON.stringify(packageJson, null, indent) with a number: that many
\* spaces per level, ten at most.
Stringify(doc, engines, indent) ==
    [doc EXCEPT !.engines = engines,
                !.indent = Spaces(IF indent > 10 THEN 10 ELSE indent)]

UPDATE_SUCCESS == "package.json has been updated with new 'engines' settings."

ALREADY_UP_TO_DATE == "package.json 'engines' are already up-to-date."

UPDATE_FAILED == "Failed to update package.json"

ERROR_ANALYZING == "Error analyzing dependencies"

\* What workspace.applyEdit resolves to: whether the edit was applied.
ApplyEditOutcomes == BOOLEAN

\* How the update call ends after an edit: the helpers resolve to
\* undefined, the service returns true.
ReturnAfterEdit(i) == IF i = "service" THEN "true" ELSE "undefined"

\* How the update call ends without an edit: the service returns false.
ReturnWithoutEdit(i) == IF i = "service" THEN "false" ELSE "undefined"

\* The catch block resolving although the update failed.
ReturnAfterFailureResolves(i) == "undefined"

\* The catch block: the helpers show an error message and resolve, the
\* service throws a new Error.
ReturnAfterFailure(i) == IF i = "service" THEN "throw" ELSE "undefined"

\* The message a failure ends in: the helpers' own error message, and for
\* the error the service throws the message of the command's catch block.
FailureMessage(i) == IF i = "service" THEN ERROR_ANALYZING ELSE UPDATE_FAILED

\* updatePackageJsonEngines (and updateVersionRanges), and
\* PackageJsonService.updateEngines together with the message the command
\* shows for its return value or its exception.
UpdateEngines ==
    /\ updateRequests > 0
    /\ updateRequests' = updateRequests - 1
    /\ IF ~document.opens \/ ~document.parsable
       THEN /\ errorMessages' = Append(errorMessages, FailureMessage(impl))
            /\ updateReturned' = ReturnAfterFailure(impl)
            /\ UNCHANGED <<document, edits, applyResults, infoMessages>>
       ELSE IF Updated(document, nodeEngineString, npmEngineString)
       THEN LET newText ==
                    Stringify(document,
                              MergedEngines(document, nodeEngineString,
                                            npmEngineString),
                              DetectIndent(document))
            IN  \E applied \in ApplyEditOutcomes :
                    /\ edits' = Append(edits, newText)
                    /\ applyResults' = Append(applyResults, applied)
                    /\ document' = IF applied THEN newText ELSE document
                    /\ infoMessages' = Append(infoMessages, UPDATE_SUCCESS)
                    /\ updateReturned' = ReturnAfterEdit(impl)
                    /\ UNCHANGED errorMessages
       ELSE /\ infoMessages' = Append(infoMessages, ALREADY_UP_TO_DATE)
            /\ updateReturned' = ReturnWithoutEdit(impl)
            /\ UNCHANGED <<document, edits, applyResults, errorMessages>>
    /\ UNCHANGED <<impl, manifest, pc, dependencies, depCount, allNodeRanges,
                   allNpmRanges, result, returned, thrown, lookups, warnings,
                   progressLog, nodeEngineString, npmEngineString>>
    /\ UNCHANGED <<formatVars, hoverVars, catalogVars,
                   concurrentVars, commandVars>>

-----------------------------------------------------------------------------
(* The analyze command                                                     *)

undefined == "undefined"

\* The command's arguments once determineWorkspaceFolder has returned.
NoEnv == [uri |-> "none", editor |-> "none", folders |-> "none", pick |-> "none"]

\* What the command is invoked with: the uri argument (none, a directory of
\* a workspace folder, a directory outside every workspace folder, a file,
\* or a uri that fs.stat rejects), the active editor's document (none, in a
\* workspace folder or outside), the number of workspace folders and the
\* answer to showWorkspaceFolderPick.
WorkspaceEnvs ==
    [uri : {"none", "folder", "outside", "file", "unstatable"},
     editor : {"none", "inside", "outside"},
     folders : {"none", "one", "several"},
     pick : {"picked", "dismissed"}]

\* A folder whatever the workspace holds.
DetermineFirstFolder(env) == "only-folder"

\* How often determineWorkspaceFolder shows the workspace-folder picker.
showWorkspaceFolderPickCalls(env) ==
    IF /\ env.folders = "several"
       /\ \/ env.uri \in {"outside", "file", "unstatable"}
          \/ env.uri = "none" /\ env.editor \in {"none", "outside"}
    THEN 1 ELSE 0

determineWorkspaceFolder(env) ==
    LET folderToAnalyze ==
            IF env.uri # "none"
            THEN (IF env.uri = "folder" THEN "uri-folder" ELSE undefined)
            ELSE IF env.editor # "none"
            THEN (IF env.editor = "inside" THEN "editor-folder" ELSE undefined)
            ELSE undefined
    IN  IF folderToAnalyze = undefined /\ env.folders # "none"
        THEN IF env.folders = "one"
             THEN "only-folder"
             ELSE IF env.pick = "picked" THEN "picked-folder" ELSE undefined
        ELSE folderToAnalyze

NO_WORKSPACE_FOLDER ==
    "No workspace folder found. Open a project to analyze dependencies."

NO_DEPENDENCIES_MESSAGE ==
    "No dependencies in project. Cannot determine support limits based on dependencies."

NO_NODE_RANGE ==
    "Could not determine a compatible Node.js version range for the project dependencies."

ACTION_BUTTON_UPDATE_PACKAGE_JSON == "Update package.json"

\* The modal dialog closed without a button.
Dismissed == undefined

\* result.minX && result.maxX ? ">=min <=max" : null
EngineString(i, min, max) ==
    IF min # null /\ max # null
    THEN IF i = "service"
         THEN formatVersionRange(JsStr(VersionString(min)),
                                 JsStr(VersionString(max)))
         ELSE JsStr(">=" \o VersionString(min) \o " <=" \o VersionString(max))
    ELSE JsNull

\* The text of the recommendation dialog.
ENGINES_RECOMMENDATION(nodeString, npmString) ==
    "Recommended 'engines':\nNode: " \o nodeString.s \o "\nNPM: "
        \o (IF Truthy(npmString) THEN npmString.s ELSE "(Could not determine)")

\* Any answer taken for the update button.
UpdateRequestedAlways(answer) == TRUE

\* selection === ACTION_BUTTON_UPDATE_PACKAGE_JSON
UpdateRequested(answer) == answer = ACTION_BUTTON_UPDATE_PACKAGE_JSON

\* The engines section the manifest can have when the update opens it.
CommandDocuments(nodeString, npmString) ==
    DocumentsWith({JsUndefined, JsStr(">=16.0.0"), nodeString},
                  {JsUndefined} \cup (IF Truthy(npmString) THEN {npmString} ELSE {}),
                  {JsUndefined},
                  {Spaces(DEFAULT_JSON_INDENT)})

\* The command handler up to withProgress: the error message without a
\* workspace folder, the progress-wrapped task with one.
DetermineWorkspaceFolder ==
    /\ cmdPc = "invoked"
    /\ workspaceFolder' = determineWorkspaceFolder(workspaceEnv)
    /\ IF workspaceFolder' = undefined
       THEN /\ errorMessages' = Append(errorMessages, NO_WORKSPACE_FOLDER)
            /\ cmdPc' = "no-folder"
            /\ UNCHANGED workspaceEnv
       ELSE /\ cmdPc' = "progress"
            /\ workspaceEnv' = NoEnv
            /\ UNCHANGED errorMessages
    /\ UNCHANGED <<impl, manifest, pc, dependencies, depCount, allNodeRanges,
                   allNpmRanges, result, returned, thrown, lookups, warnings,
                   progressLog, selection>>
    /\ folderPicks' = showWorkspaceFolderPickCalls(workspaceEnv)
    /\ UNCHANGED <<formatVars, hoverVars, catalogVars,
                   concurrentVars, updateVars>>

\* The task's first tick, "Reading project package.json...", and the call
\* of the analysis; a throwing sink goes to the task's catch.
ReportReading ==
    /\ cmdPc = "progress"
    /\ \E delivered \in SinkOutcomes :
          IF delivered
          THEN /\ progressLog' = Append(progressLog, Tick("reading", 0, 1))
               /\ pc' = "start"
               /\ cmdPc' = "analyzing"
               /\ UNCHANGED errorMessages
          ELSE /\ errorMessages' = Append(errorMessages, ERROR_ANALYZING)
               /\ cmdPc' = "finished"
               /\ UNCHANGED <<progressLog, pc>>
    /\ UNCHANGED <<impl, manifest, dependencies, depCount, allNodeRanges,
                   allNpmRanges, result, returned, thrown, lookups, warnings,
                   workspaceEnv, workspaceFolder, selection, folderPicks>>
    /\ UNCHANGED <<formatVars, hoverVars, catalogVars,
                   concurrentVars, updateVars>>

\* The task after the analysis: nothing on null, the two messages for no
\* dependencies and no runtime range, else the recommendation dialog; an
\* exception of the analysis goes to the task's catch.
PresentResult ==
    /\ cmdPc = "analyzing"
    /\ returned # "none"
    /\ LET nodeString == EngineString(impl, result.minNode, result.maxNode)
           npmString == EngineString(impl, result.minNpm, result.maxNpm)
       IN  IF returned = "throw"
           THEN /\ errorMessages' = Append(errorMessages, ERROR_ANALYZING)
                /\ cmdPc' = "finished"
                /\ UNCHANGED <<infoMessages, nodeEngineString, npmEngineString>>
           ELSE IF returned = "null"
           THEN /\ cmdPc' = "finished"
                /\ UNCHANGED <<errorMessages, infoMessages, nodeEngineString,
                               npmEngineString>>
           ELSE IF result.note = NOTE_NO_DEPENDENCIES
           THEN /\ infoMessages' = Append(infoMessages, NO_DEPENDENCIES_MESSAGE)
                /\ cmdPc' = "finished"
                /\ UNCHANGED <<errorMessages, nodeEngineString, npmEngineString>>
           ELSE IF ~Truthy(nodeString)
           THEN /\ errorMessages' = Append(errorMessages, NO_NODE_RANGE)
                /\ cmdPc' = "finished"
                /\ UNCHANGED <<infoMessages, nodeEngineString, npmEngineString>>
           ELSE /\ infoMessages' =
                       Append(infoMessages,
                              ENGINES_RECOMMENDATION(nodeString, npmString))
                /\ nodeEngineString' = nodeString
                /\ npmEngineString' = npmString
                /\ cmdPc' = "dialog"
                /\ UNCHANGED errorMessages
    /\ UNCHANGED <<impl, manifest, pc, dependencies, depCount, allNodeRanges,
                   allNpmRanges, result, returned, thrown, lookups, warnings,
                   progressLog, document, updateRequests, edits,
                   applyResults, updateReturned,
                   workspaceEnv, workspaceFolder, selection, folderPicks>>
    /\ UNCHANGED <<formatVars, hoverVars, catalogVars, concurrentVars>>

\* The dialog's answer; the update button requests the manifest update,
\* which opens the manifest as it is then.
AnswerDialog ==
    /\ cmdPc = "dialog"
    /\ \E answer \in {ACTION_BUTTON_UPDATE_PACKAGE_JSON, Dismissed} :
          /\ selection' = answer
          /\ IF UpdateRequested(answer)
             THEN /\ cmdPc' = "updating"
                  /\ updateRequests' = 1
                  /\ document' \in CommandDocuments(nodeEngineString,
                                                    npmEngineString)
             ELSE /\ cmdPc' = "finished"
                  /\ UNCHANGED <<updateRequests, document>>
    /\ UNCHANGED <<nodeEngineString, npmEngineString, edits, infoMessages,
                   applyResults, updateReturned,
                   workspaceEnv, workspaceFolder, folderPicks>>
    /\ UNCHANGED <<analysisVars, formatVars, hoverVars, catalogVars,
                   concurrentVars>>

-----------------------------------------------------------------------------
(* The hover provider                                                      *)

\* Lines of a package.json by what provideHover tests on them: the line of
\* an opening brace, the line of a dependency key ("dependencies": {), the
\* line of another key ("scripts": {), a "name": "value" entry, a closing
\* brace.
LineKinds == {"open", "depkey", "otherkey", "entry", "close"}

\* DEPENDENCY_KEYS_FOR_HOVER.some(key => lineText.includes(`"${key}":`))
HasDependencyKey(line) == line = "depkey"

\* lineText.match(/^\s*{/)
StartsWithBrace(line) == line = "open"

COMMAND_ID_ANALYZE_DEPENDENCIES == "node-support-limits.analyzeDependencies"

\* Markdown as its segments: plain text, or a link with its target.
MarkdownText(text) == [text |-> text, href |-> ""]

\* HOVER_MARKDOWN_ANALYZE_PROJECT / UI.HOVER.ANALYZE_PROJECT
HOVER_MARKDOWN_ANALYZE_PROJECT ==
    << MarkdownText("Analyze Node/NPM Support Limits for project") >>

RECURSIVE ScanUp(_, _, _)
\* for (lineNum = position.line; lineNum >= 0; lineNum--): inDepsBlock
ScanUp(lines, lineNum, positionLine) ==
    IF lineNum < 1 THEN FALSE
    ELSE IF HasDependencyKey(lines[lineNum]) THEN TRUE
    ELSE IF StartsWithBrace(lines[lineNum]) /\ lineNum # positionLine THEN FALSE
    ELSE ScanUp(lines, lineNum - 1, positionLine)

\* new Hover(contents, range) with contents.isTrusted = true
Hover(markdown, range) ==
    [contents |-> [value |-> markdown, isTrusted |-> TRUE], range |-> range]

provideHover(lines, position) ==
    LET range == IF position.onEntry THEN position.line ELSE 0
    IN  IF range = 0 THEN JsNull
        ELSE IF ScanUp(lines, position.line, position.line)
             THEN Hover(HOVER_MARKDOWN_ANALYZE_PROJECT, range)
             ELSE JsNull

ProvideHover ==
    /\ hoverPc = "call"
    /\ hoverResult' = provideHover(hoverLines, hoverPosition)
    /\ hoverPc' = "returned"
    /\ UNCHANGED <<hoverLines, hoverPosition>>
    /\ UNCHANGED <<analysisVars, formatVars, updateVars, commandVars,
                   catalogVars, concurrentVars>>

-----------------------------------------------------------------------------
(* Catalog construction                                                    *)

\* A version string with build metadata: valid() accepts it and compare()
\* ignores the metadata, so it has the precedence of the bare version.
VerBuild(a, b, c, build) == [semver |-> <<a, b, c>>, build |-> build]

Built(catalog) == [thrown |-> FALSE, catalog |-> catalog]

\* compare() constructs a SemVer of each argument and throws a TypeError on
\* a string that is not one.
CatalogThrown == [thrown |-> TRUE, catalog |-> <<>>]

\* sort(compare) calls compare on every element of a list of two or more.
SortCompareThrows(raw) ==
    Len(raw) >= 2 /\ \E i \in DOMAIN raw : valid(raw[i]) = null

\* raw.filter(v => valid(v)).sort(compare): the runtime catalogs.
FilterAndSort(raw) == Built(SortByCompare(FilterValid(raw)))

\* raw.sort(compare): the package-manager catalogs.
SortWithoutFilter(raw) ==
    IF SortCompareThrows(raw) THEN CatalogThrown ELSE Built(SortByCompare(raw))

ConstructCatalog(kind, raw) ==
    IF kind = "runtime" THEN FilterAndSort(raw) ELSE SortWithoutFilter(raw)

\* The construction of a catalog from a raw list.
BuildCatalog ==
    /\ catPc = "call"
    /\ catOut' = ConstructCatalog(catKind, catRaw)
    /\ catPc' = "built"
    /\ UNCHANGED <<catRaw, catKind>>
    /\ UNCHANGED <<analysisVars, formatVars, updateVars, commandVars,
                   hoverVars,
                   concurrentVars>>

\* The construction applied to a constructed catalog.
RebuildCatalog ==
    /\ catPc = "built"
    /\ ~catOut.thrown
    /\ catOut' = ConstructCatalog(catKind, catOut.catalog)
    /\ catPc' = "rebuilt"
    /\ UNCHANGED <<catRaw, catKind>>
    /\ UNCHANGED <<analysisVars, formatVars, updateVars, commandVars,
                   hoverVars,
                   concurrentVars>>

-----------------------------------------------------------------------------
(* Overlapping analyze calls                                               *)

\* The calls in flight: two invocations of the command.
RunIds == {1, 2}

\* The arrays of every call kept in one module-level pair.
ArraysShared(run) == 1

\* const allNodeRanges = [], const allNpmRanges = []: the arrays of a call
\* are created by the call.
ArraysOf(run) == run

NoArrays == [node |-> <<>>, npm |-> <<>>]

\* The locals of a call that has not run yet.
NewRun(m) ==
    [manifest |-> m, pc |-> "start", dependencies |-> <<>>, depCount |-> 0,
     metas |-> <<>>, result |-> NoResult, returned |-> "none"]

\* The module-level catalogs of the analyzer in use.
ModuleCatalogs(i) ==
    [node |-> COMMON_NODEJS_VERSIONS(i), npm |-> COMMON_NPM_VERSIONS(i)]

\* Up to the dependency loop: the manifest, the merged dependencies, the
\* early returns, the two new arrays.
RunStart(r) ==
    /\ runs[r].pc = "start"
    /\ LET m == runs[r].manifest
           deps == MergeKeys(m.deps, m.devDeps)
       IN  IF m.status # "ok"
           THEN /\ runs' = [runs EXCEPT
                       ![r].pc = IF impl = "service" /\ m.status = "unparsable"
                                 THEN "thrown" ELSE "manifest-not-found",
                       ![r].returned =
                                 IF impl = "service" /\ m.status = "unparsable"
                                 THEN "throw" ELSE "null"]
                /\ UNCHANGED arrays
           ELSE IF Len(deps) = 0
           THEN /\ runs' = [runs EXCEPT
                       ![r].pc = "no-dependencies",
                       ![r].returned = "result",
                       ![r].result = [NoResult EXCEPT !.note = NOTE_NO_DEPENDENCIES]]
                /\ UNCHANGED arrays
           ELSE /\ runs' = [runs EXCEPT ![r].pc = "collecting",
                                        ![r].dependencies = deps]
                /\ arrays' = [arrays EXCEPT ![ArraysOf(r)] = NoArrays]
    /\ UNCHANGED catalogs
    /\ UNCHANGED <<analysisVars, formatVars, updateVars, commandVars,
                   hoverVars, catalogVars>>

\* What the calls find when they read a dependency: nothing, text that is
\* not JSON, a manifest without engines, one with both kinds, one with a
\* runtime constraint only.
OverlapMetadata ==
    { meta \in DepMetadata :
        \/ ~meta.hasEngines
        \/ meta.node = Range18to20 /\ meta.npm = Npm10to11
        \/ meta.node = Range18or22 /\ meta.npm = Absent }

\* One pass of the dependency loop of a call.
RunAnalyzeDependency(r) ==
    /\ runs[r].pc = "collecting"
    /\ runs[r].depCount < Len(runs[r].dependencies)
    /\ \E meta \in OverlapMetadata :
          IF ReadThrows(impl, meta)
          THEN /\ runs' = [runs EXCEPT ![r].pc = "thrown",
                                       ![r].returned = "throw",
                                       ![r].depCount = @ + 1]
               /\ UNCHANGED arrays
          ELSE /\ runs' = [runs EXCEPT ![r].depCount = @ + 1,
                                       ![r].metas = Append(@, meta)]
               /\ arrays' = [arrays EXCEPT
                      ![ArraysOf(r)].node = PushNodeRange(@, meta),
                      ![ArraysOf(r)].npm = PushNpmRange(@, meta)]
    /\ UNCHANGED catalogs
    /\ UNCHANGED <<analysisVars, formatVars, updateVars, commandVars,
                   hoverVars, catalogVars>>

\* The resolution of both ranges of a call, from its arrays and the
\* module-level catalogs, which filter() leaves as they are.
RunCalculateRanges(r) ==
    /\ runs[r].pc = "collecting"
    /\ runs[r].depCount = Len(runs[r].dependencies)
    /\ LET node == calculateNodeRange(catalogs.node, arrays[ArraysOf(r)].node,
                                      Len(runs[r].dependencies) > 0)
           npm  == calculateNpmRange(catalogs.npm, arrays[ArraysOf(r)].npm)
       IN  runs' = [runs EXCEPT
               ![r].pc = "done",
               ![r].returned = "result",
               ![r].result = [minNode |-> node.min, maxNode |-> node.max,
                              minNpm |-> npm.min, maxNpm |-> npm.max,
                              note |-> NoNote]]
    /\ UNCHANGED <<arrays, catalogs>>
    /\ UNCHANGED <<analysisVars, formatVars, updateVars, commandVars,
                   hoverVars, catalogVars>>

-----------------------------------------------------------------------------
(* Specifications                                                          *)

AnalysisIdle ==
    /\ dependencies = <<>>
    /\ depCount = 0
    /\ allNodeRanges = <<>>
    /\ allNpmRanges = <<>>
    /\ result = NoResult
    /\ returned = "none"
    /\ thrown = "none"
    /\ errorMessages = <<>>
    /\ lookups = <<>>
    /\ warnings = <<>>
    /\ progressLog = <<>>

FormatIdle ==
    /\ fmtMin = JsNull
    /\ fmtMax = JsNull
    /\ fmtOut = JsNull
    /\ fmtPc = "idle"

UpdateIdle ==
    /\ document = NoDocument
    /\ nodeEngineString = JsNull
    /\ npmEngineString = JsNull
    /\ updateRequests = 0
    /\ edits = <<>>
    /\ applyResults = <<>>
    /\ updateReturned = "none"
    /\ infoMessages = <<>>

CommandIdle ==
    /\ cmdPc = "idle"
    /\ workspaceEnv = NoEnv
    /\ workspaceFolder = undefined
    /\ selection = "none"
    /\ folderPicks = 0

HoverIdle ==
    /\ hoverLines = <<>>
    /\ hoverPosition = [line |-> 0, onEntry |-> FALSE]
    /\ hoverResult = JsNull
    /\ hoverPc = "idle"

CatalogIdle ==
    /\ catRaw = <<>>
    /\ catKind = "runtime"
    /\ catOut = [thrown |-> FALSE, catalog |-> <<>>]
    /\ catPc = "idle"

ConcurrentIdle ==
    /\ runs = <<>>
    /\ arrays = <<>>
    /\ catalogs = [node |-> <<>>, npm |-> <<>>]

\* One analysis run of one analyzer over one project.
Init ==
    /\ impl \in Impls
    /\ manifest \in { m \in Manifests : CanonicalNames(m) }
    /\ pc = "start"
    /\ AnalysisIdle
    /\ FormatIdle
    /\ UpdateIdle
    /\ CommandIdle
    /\ HoverIdle
    /\ CatalogIdle
    /\ ConcurrentIdle

Next ==
    \/ LocateManifest
    \/ CollectDependencies
    \/ AnalyzeDependency
    \/ CalculateRanges

Spec == Init /\ [][Next]_vars

\* One call of formatVersionRange.
FormatInit ==
    /\ impl = "includes"
    /\ manifest = [status |-> "absent", deps |-> <<>>, devDeps |-> <<>>]
    /\ pc = "idle"
    /\ AnalysisIdle
    /\ fmtMin \in FormatInputs
    /\ fmtMax \in FormatInputs
    /\ fmtOut = JsNull
    /\ fmtPc = "call"
    /\ UpdateIdle
    /\ CommandIdle
    /\ HoverIdle
    /\ CatalogIdle
    /\ ConcurrentIdle

FormatNext == FormatCall

FormatSpec == FormatInit /\ [][FormatNext]_vars

\* The largest number of times the same update is applied in a row.
MaxUpdateCalls == 2

\* Strings the tests pass as nodeEngineString and npmEngineString.
NodeEngineStrings == {JsNull, JsStr(">=18.0.0"), JsStr(">=20.0.0")}

NpmEngineStrings == {JsNull, JsStr(">=9.0.0")}

\* Manifests the update can meet.
Documents ==
    DocumentsWith({JsUndefined, JsStr(">=16.0.0"), JsStr(">=18.0.0")},
                  {JsUndefined, JsStr(">=7.0.0"), JsStr(">=9.0.0")},
                  {JsUndefined, JsStr(">=1.22.0")},
                  Indents)

\* The same manifest update requested some times in a row.
UpdateInit ==
    /\ impl \in {"helper", "service"}
    /\ manifest = [status |-> "ok", deps |-> <<>>, devDeps |-> <<>>]
    /\ pc = "idle"
    /\ AnalysisIdle
    /\ FormatIdle
    /\ document \in Documents
    /\ nodeEngineString \in NodeEngineStrings
    /\ npmEngineString \in NpmEngineStrings
    /\ updateRequests = MaxUpdateCalls
    /\ edits = <<>>
    /\ applyResults = <<>>
    /\ updateReturned = "none"
    /\ infoMessages = <<>>
    /\ CommandIdle
    /\ HoverIdle
    /\ CatalogIdle
    /\ ConcurrentIdle

UpdateNext == UpdateEngines

UpdateSpec == UpdateInit /\ [][UpdateNext]_vars

\* Largest number of dependency entries of a manifest the command analyses.
MaxCommandDeps == 1

\* One invocation of the analyze command: activate's handler over
\* analyzeProjectDependencies, or AnalyzeDependenciesCommand.execute over
\* DependencyAnalyzerService.
CommandInit ==
    /\ impl \in {"helper", "service"}
    /\ manifest \in { m \in Manifests :
                         /\ CanonicalNames(m)
                         /\ Len(m.deps) + Len(m.devDeps) <= MaxCommandDeps }
    /\ pc = "idle"
    /\ AnalysisIdle
    /\ FormatIdle
    /\ UpdateIdle
    /\ cmdPc = "invoked"
    /\ workspaceEnv \in WorkspaceEnvs
    /\ workspaceFolder = undefined
    /\ selection = "none"
    /\ folderPicks = 0
    /\ HoverIdle
    /\ CatalogIdle
    /\ ConcurrentIdle

CommandNext ==
    \/ DetermineWorkspaceFolder
    \/ ReportReading
    \/ LocateManifest
    \/ CollectDependencies
    \/ AnalyzeDependency
    \/ CalculateRanges
    \/ PresentResult
    \/ AnswerDialog
    \/ UpdateEngines

CommandSpec == CommandInit /\ [][CommandNext]_vars

\* Largest number of lines of a hovered document.
MaxHoverLines == 3

\* One call of provideHover: a document, a line of it, and whether the
\* "name": "value" pattern matches under the cursor.
HoverInit ==
    /\ impl = "helper"
    /\ manifest = [status |-> "ok", deps |-> <<>>, devDeps |-> <<>>]
    /\ pc = "idle"
    /\ AnalysisIdle
    /\ FormatIdle
    /\ UpdateIdle
    /\ CommandIdle
    /\ hoverLines \in UNION { [1..n -> LineKinds] : n \in 1..MaxHoverLines }
    /\ hoverPosition \in
          { [line |-> l, onEntry |-> e] :
              l \in DOMAIN hoverLines, e \in BOOLEAN }
    /\ hoverPosition.onEntry => hoverLines[hoverPosition.line] = "entry"
    /\ hoverResult = JsNull
    /\ hoverPc = "call"
    /\ CatalogIdle
    /\ ConcurrentIdle

HoverNext == ProvideHover

HoverSpec == HoverInit /\ [][HoverNext]_vars

\* Largest length of a raw list.
MaxRawLen == 3

\* Raw entries: versions of the lists of the source, one of them also with
\* build metadata, and an alias.
RawEntries ==
    {Ver(18, 20, 8), Ver(20, 19, 1), VerBuild(18, 20, 8, "build"),
     Alias("lts/iron")}

\* One construction of a catalog of either kind from a raw list, and the
\* construction applied again to what it gave.
CatalogInit ==
    /\ impl = "helper"
    /\ manifest = [status |-> "ok", deps |-> <<>>, devDeps |-> <<>>]
    /\ pc = "idle"
    /\ AnalysisIdle
    /\ FormatIdle
    /\ UpdateIdle
    /\ CommandIdle
    /\ HoverIdle
    /\ catRaw \in UNION { [1..n -> RawEntries] : n \in 0..MaxRawLen }
    /\ catKind \in {"runtime", "package-manager"}
    /\ catOut = [thrown |-> FALSE, catalog |-> <<>>]
    /\ catPc = "call"
    /\ ConcurrentIdle

CatalogNext == BuildCatalog \/ RebuildCatalog

CatalogSpec == CatalogInit /\ [][CatalogNext]_vars

\* Largest number of dependencies of a project analysed by overlapping calls.
MaxConcurrentDeps == 1

\* Two calls of one analyzer, on the same or on different projects, each
\* about to start; their steps interleave in every order.
ConcurrentInit ==
    /\ impl \in Impls
    /\ manifest = [status |-> "ok", deps |-> <<>>, devDeps |-> <<>>]
    /\ pc = "idle"
    /\ AnalysisIdle
    /\ FormatIdle
    /\ UpdateIdle
    /\ CommandIdle
    /\ HoverIdle
    /\ CatalogIdle
    /\ runs \in [RunIds ->
                    { NewRun(m) :
                        m \in { n \in Manifests :
                                  /\ CanonicalNames(n)
                                  /\ Len(n.deps) + Len(n.devDeps)
                                        <= MaxConcurrentDeps } }]
    /\ arrays = [r \in RunIds |-> NoArrays]
    /\ catalogs = ModuleCatalogs(impl)

ConcurrentNext ==
    \E r \in RunIds :
        \/ RunStart(r)
        \/ RunAnalyzeDependency(r)
        \/ RunCalculateRanges(r)

ConcurrentSpec == ConcurrentInit /\ [][ConcurrentNext]_vars

-----------------------------------------------------------------------------
(* Properties                                                              *)

NodeCatalog == COMMON_NODEJS_VERSIONS(impl)

NpmCatalog == COMMON_NPM_VERSIONS(impl)

\* Positions of the catalog versions that satisfy every range of the list.
SatisfyingPositions(catalog, ranges) ==
    { i \in DOMAIN catalog :
        \A j \in DOMAIN ranges : satisfies(catalog[i], ranges[j]) }

SetMin(S) == CHOOSE x \in S : \A y \in S : x <= y

SetMax(S) == CHOOSE x \in S : \A y \in S : y <= x

\* (min, max) is (first, last) of the satisfying versions in catalog order,
\* or (null, null) when there is none.
IsFirstLast(catalog, ranges, min, max) ==
    LET pos == SatisfyingPositions(catalog, ranges)
    IN  IF pos = {}
        THEN min = null /\ max = null
        ELSE min = catalog[SetMin(pos)] /\ max = catalog[SetMax(pos)]

ExampleCatalog == << <<18, 0, 0>>, <<19, 0, 0>>, <<19, 5, 0>>, <<20, 0, 0>> >>

\* C1: with a non-empty constraint list the resolver returns (first, last)
\* of the catalog versions, in catalog order, that satisfy every constraint,
\* and (null, null) without an error when none does; the catalog
\* [18.0.0, 19.0.0, 19.5.0, 20.0.0] with ">=18.0.0 <20.0.0" gives
\* (18.0.0, 19.5.0) and two disjoint windows give (null, null).
C1_ResolverFirstLast ==
    /\ pc = "done" =>
          /\ Len(allNodeRanges) > 0 =>
                IsFirstLast(NodeCatalog, allNodeRanges,
                            result.minNode, result.maxNode)
          /\ Len(allNpmRanges) > 0 =>
                IsFirstLast(NpmCatalog, allNpmRanges,
                            result.minNpm, result.maxNpm)
    /\ calculateNodeRange(ExampleCatalog, <<Range18to20>>, TRUE)
          = [min |-> <<18, 0, 0>>, max |-> <<19, 5, 0>>]
    /\ calculateNpmRange(ExampleCatalog, <<Range18to20>>)
          = [min |-> <<18, 0, 0>>, max |-> <<19, 5, 0>>]
    /\ calculateNodeRange(ExampleCatalog, <<Range18to20, Range20to21>>, TRUE)
          = [min |-> null, max |-> null]
    /\ thrown \in {"none", "sink", "manifest-parse", "dependency-parse"}

\* C1 witness: a finished run whose two runtime windows are disjoint (no
\* version, no error) and whose package-manager list has a compatible version.
C1_Witness ==
    /\ pc = "done"
    /\ allNodeRanges = <<Range18to20, Range20to21>>
    /\ result.minNode = null
    /\ Len(allNpmRanges) > 0
    /\ result.minNpm # null
    /\ result.minNpm # result.maxNpm

InCatalog(catalog, v) == \E i \in DOMAIN catalog : catalog[i] = v

WellFormedRange(catalog, min, max) ==
    /\ (min = null) <=> (max = null)
    /\ min # null =>
          /\ InCatalog(catalog, min)
          /\ InCatalog(catalog, max)
          /\ compare(min, max) <= 0

\* C2: in every returned result, per engine kind, the minimum is present
\* exactly when the maximum is, both are catalog elements, and
\* minimum <= maximum.
C2_ResultRangeWellFormed ==
    returned = "result" =>
        /\ WellFormedRange(NodeCatalog, result.minNode, result.maxNode)
        /\ WellFormedRange(NpmCatalog, result.minNpm, result.maxNpm)

\* C2 witness: a result whose runtime bounds are two different versions.
C2_Witness ==
    /\ returned = "result"
    /\ result.minNode # null
    /\ result.minNode # result.maxNode
    /\ result.minNpm # null

\* Every catalog version from min to max satisfies every collected range.
RangeSatisfiesAll(catalog, ranges, min, max) ==
    min # null /\ max # null =>
        \A i \in DOMAIN catalog :
            (compare(min, catalog[i]) <= 0 /\ compare(catalog[i], max) <= 0) =>
                \A j \in DOMAIN ranges : satisfies(catalog[i], ranges[j])

\* C3: every catalog version v with min <= v <= max satisfies every
\* collected constraint of that engine kind.
C3_RangeSatisfiesAllDependencies ==
    pc = "done" =>
        /\ RangeSatisfiesAll(NodeCatalog, allNodeRanges,
                             result.minNode, result.maxNode)
        /\ RangeSatisfiesAll(NpmCatalog, allNpmRanges,
                             result.minNpm, result.maxNpm)

\* C4 as stated: an empty constraint list with a non-empty dependency set
\* resolves to (null, null), for the runtime kind as for the package manager.
C4_EmptyListIsAbsent ==
    (pc = "done" /\ Len(dependencies) > 0) =>
        /\ Len(allNodeRanges) = 0 =>
              result.minNode = null /\ result.maxNode = null
        /\ Len(allNpmRanges) = 0 =>
              result.minNpm = null /\ result.maxNpm = null

\* C4 amended: with a non-empty dependency set, an empty package-manager
\* list resolves to (null, null), and an empty runtime list resolves to the
\* whole runtime catalog (its first and last version).
C4_EmptyListByKind ==
    (pc = "done" /\ Len(dependencies) > 0) =>
        /\ Len(allNodeRanges) = 0 =>
              /\ result.minNode = NodeCatalog[1]
              /\ result.maxNode = Last(NodeCatalog)
        /\ Len(allNpmRanges) = 0 =>
              result.minNpm = null /\ result.maxNpm = null

\* C4 witness: dependencies were processed and neither list got a range.
C4_Witness ==
    /\ pc = "done"
    /\ Len(dependencies) > 0
    /\ Len(allNodeRanges) = 0
    /\ Len(allNpmRanges) = 0

\* C5: a dependency whose metadata is missing or unparsable never ends the
\* run: no exception comes from a dependency read, and a run that returns
\* has looked up every dependency.
C5_PartialFailureTolerant ==
    /\ thrown # "dependency-parse"
    /\ pc = "done" => Len(lookups) = Len(dependencies)

Unavailable(meta) == meta.read \in {"missing", "unparsable"}

\* One loop pass that read unavailable metadata and went on.
C6_Step ==
    (/\ lookups' # lookups
     /\ Unavailable(Last(lookups').meta)
     /\ pc' = "collecting") =>
        /\ allNodeRanges' = Append(allNodeRanges, DEFAULT_NODE_VERSION_RANGE)
        /\ allNpmRanges' = allNpmRanges

\* A finished run all of whose dependencies were unavailable.
C6_Final ==
    (/\ pc = "done"
     /\ \A i \in DOMAIN lookups : Unavailable(lookups[i].meta)) =>
        /\ result.minNode = NodeCatalog[1]
        /\ result.maxNode = Last(NodeCatalog)
        /\ result.minNpm = null
        /\ result.maxNpm = null

DependencySetEmpty == manifest.deps = <<>> /\ manifest.devDeps = <<>>

C8_ManifestFailure ==
    (manifest.status # "ok" /\ pc # "start") =>
        /\ pc = "manifest-not-found"
        /\ returned = "null"
        /\ Len(errorMessages) = 1
        /\ thrown = "none"
        /\ lookups = <<>>

\* C9: formatVersionRange returns null when both arguments are absent,
\* ">=min" for a minimum alone, "<=max" for a maximum alone and
\* ">=min <=max" for both, and never the empty string.
C9_FormatVersionRange ==
    fmtPc = "returned" =>
        /\ (~Truthy(fmtMin) /\ ~Truthy(fmtMax)) => fmtOut = JsNull
        /\ (Truthy(fmtMin) /\ ~Truthy(fmtMax)) =>
              fmtOut = JsStr(">=" \o fmtMin.s)
        /\ (~Truthy(fmtMin) /\ Truthy(fmtMax)) =>
              fmtOut = JsStr("<=" \o fmtMax.s)
        /\ (Truthy(fmtMin) /\ Truthy(fmtMax)) =>
              fmtOut = JsStr(">=" \o fmtMin.s \o " " \o "<=" \o fmtMax.s)
        /\ fmtOut # JsStr("")
        /\ (fmtMin = JsStr("12.0.0") /\ fmtMax = JsNull) =>
              fmtOut = JsStr(">=12.0.0")
        /\ (fmtMin = JsNull /\ fmtMax = JsStr("16.0.0")) =>
              fmtOut = JsStr("<=16.0.0")
        /\ (fmtMin = JsStr("12.0.0") /\ fmtMax = JsStr("16.0.0")) =>
              fmtOut = JsStr(">=12.0.0 <=16.0.0")

\* C9 witness: the call with both bounds returned the two clauses, minimum
\* first, joined by one space.
C9_Witness ==
    /\ fmtPc = "returned"
    /\ fmtMin = JsStr("18.0.0")
    /\ fmtMax = JsStr("22.4.1")
    /\ fmtOut = JsStr(">=18.0.0 <=22.4.1")

InList(r, list) == \E i \in DOMAIN list : list[i] = r

\* C10: a malformed range is not satisfied by any version and is no hard
\* error: the run finishes with a result in which the kind holding the
\* malformed range is (null, null) and the other kind is resolved as usual.
C10_MalformedRangeNotSatisfied ==
    /\ \A i \in DOMAIN NodeCatalog : ~satisfies(NodeCatalog[i], MalformedRange)
    /\ \A i \in DOMAIN NpmCatalog : ~satisfies(NpmCatalog[i], MalformedRange)
    /\ pc = "done" =>
          /\ returned = "result"
          /\ InList(MalformedRange, allNodeRanges) =>
                /\ result.minNode = null /\ result.maxNode = null
                /\ (Len(allNpmRanges) > 0 /\ ~InList(MalformedRange, allNpmRanges)) =>
                      IsFirstLast(NpmCatalog, allNpmRanges,
                                  result.minNpm, result.maxNpm)
          /\ InList(MalformedRange, allNpmRanges) =>
                /\ result.minNpm = null /\ result.maxNpm = null
                /\ ~InList(MalformedRange, allNodeRanges) =>
                      IsFirstLast(NodeCatalog, allNodeRanges,
                                  result.minNode, result.maxNode)
    /\ (pc = "thrown" /\ depCount = Len(dependencies)
          /\ (InList(MalformedRange, allNodeRanges)
                \/ InList(MalformedRange, allNpmRanges))) =>
          thrown \in {"sink", "dependency-parse"}

\* C10 witness: a finished run whose runtime list holds a malformed range
\* next to a valid one, and whose package-manager list resolved.
C10_Witness ==
    /\ pc = "done"
    /\ Len(allNodeRanges) = 2
    /\ InList(MalformedRange, allNodeRanges)
    /\ InList(Range18or22, allNodeRanges)
    /\ result.minNode = null
    /\ result.minNpm # null

\* The list holds parsed versions only and each one precedes the next.
StrictlyAscending(catalog) ==
    /\ \A i \in DOMAIN catalog : catalog[i] # null /\ Len(catalog[i]) = 3
    /\ \A i \in 1..(Len(catalog) - 1) : compare(catalog[i], catalog[i + 1]) < 0

\* The catalog holds exactly the valid entries of its raw list.
BuiltFrom(catalog, raw) ==
    /\ \A i \in DOMAIN catalog : \E j \in DOMAIN raw : valid(raw[j]) = catalog[i]
    /\ \A j \in DOMAIN raw :
          valid(raw[j]) # null => InCatalog(catalog, valid(raw[j]))

\* C11: each version catalog, runtime and package-manager, as built from
\* its raw list holds only valid semantic versions, is sorted strictly
\* ascending by semver precedence and has no duplicates; the entries of the
\* raw list that are no semantic version are discarded.
C11_CatalogsSortedValid ==
    /\ StrictlyAscending(NodeCatalog)
    /\ StrictlyAscending(NpmCatalog)
    /\ BuiltFrom(SHARED_NODEJS_VERSIONS, SHARED_NODEJS_RAW)
    /\ BuiltFrom(SHARED_NPM_VERSIONS, SHARED_NPM_RAW)
    /\ BuiltFrom(ALIASED_NODEJS_VERSIONS, NODEJS_VERSIONS_WITH_ALIASES)
    /\ BuiltFrom(NPM_VERSIONS, NPM_VERSIONS_RAW)

\* C11 witness: an analyzer whose runtime catalog lost the release-channel
\* aliases of its raw list resolved a range over that catalog.
C11_Witness ==
    /\ impl = "helper"
    /\ Len(NodeCatalog) = 4
    /\ Len(NODEJS_VERSIONS_WITH_ALIASES) = 7
    /\ pc = "done"
    /\ result.minNode = <<18, 20, 8>>
    /\ result.maxNode = <<24, 0, 1>>

\* One manifest update that replaced the text of the manifest.
Rewrites == edits' # edits

\* What a rewrite leaves alone: the text it submits differs from the
\* manifest in the engines only, and the manifest becomes that text when
\* the edit is applied.
C12_Step ==
    Rewrites =>
        LET text == Last(edits')
        IN  /\ document' = IF Last(applyResults') THEN text ELSE document
            /\ text.parsable = document.parsable
            /\ text.name = document.name
            /\ text.engines.yarn = document.engines.yarn
            /\ text.engines.present
            /\ nodeEngineString = JsNull =>
                  text.engines.node = document.engines.node
            /\ npmEngineString = JsNull =>
                  text.engines.npm = document.engines.npm
            /\ nodeEngineString # JsNull => text.engines.node = nodeEngineString
            /\ npmEngineString # JsNull => text.engines.npm = npmEngineString

\* C12: the manifest update changes only engines.node and engines.npm:
\* every other manifest field is preserved, and an engine string passed as
\* null leaves that engine's value as it was (an existing engines.npm is
\* kept, none is added where there was none).
C12_UpdateFrame == [][C12_Step]_vars

\* C12 witness: a rewrite with npmEngineString null replaced engines.node
\* and kept the manifest's engines.npm and engines.yarn.
C12_Witness ==
    /\ Len(edits) = 1
    /\ applyResults = <<TRUE>>
    /\ npmEngineString = JsNull
    /\ nodeEngineString = JsStr(">=18.0.0")
    /\ document.engines.node = JsStr(">=18.0.0")
    /\ document.engines.npm = JsStr(">=7.0.0")
    /\ document.engines.yarn = JsStr(">=1.22.0")
    /\ document.name = "test-project"

\* Every engine string that is not null equals the manifest's entry.
UpToDate(doc, nodeString, npmString) ==
    /\ nodeString # JsNull => doc.engines.node = nodeString
    /\ npmString # JsNull => doc.engines.npm = npmString

\* One update of a manifest that is up to date.
C13_Step ==
    (/\ updateRequests' < updateRequests
     /\ document.opens
     /\ document.parsable
     /\ UpToDate(document, nodeEngineString, npmEngineString)) =>
        /\ edits' = edits
        /\ document' = document
        /\ infoMessages' = Append(infoMessages, ALREADY_UP_TO_DATE)

\* The same update applied again: an edit that was applied is the last
\* edit, every later application shows "already up-to-date".
C13_Twice ==
    (document.opens /\ document.parsable) =>
        /\ \A i \in DOMAIN applyResults : applyResults[i] => i = Len(edits)
        /\ \A i \in DOMAIN infoMessages :
              infoMessages[i] = IF i <= Len(edits)
                                THEN UPDATE_SUCCESS
                                ELSE ALREADY_UP_TO_DATE
        /\ Len(infoMessages) > Len(edits) =>
              /\ UpToDate(document, nodeEngineString, npmEngineString)
              /\ edits # <<>> => Last(applyResults)

\* C13: when every engine string that is not null equals the manifest's
\* current value the update applies no edit and shows the "already
\* up-to-date" message in place of the success message; applying the same
\* update twice in a row makes the second application a no-op.
C13_NoOpWhenUpToDate == [][C13_Step]_vars /\ []C13_Twice

\* C13 witness: the first application rewrote the manifest and the second
\* one, of the same strings, left it alone.
C13_Witness ==
    /\ updateRequests = 0
    /\ Len(edits) = 1
    /\ applyResults = <<TRUE>>
    /\ infoMessages = <<UPDATE_SUCCESS, ALREADY_UP_TO_DATE>>
    /\ document = Last(edits)
    /\ nodeEngineString # JsNull
    /\ npmEngineString # JsNull

\* C14: a rewrite keeps the indentation unit of the manifest (2 spaces,
\* 4 spaces or a tab), and a manifest without detectable indentation is
\* rewritten with 2 spaces.
C14_IndentationPreserved ==
    [][Rewrites =>
          Last(edits').indent = IF document.indent = <<>>
                                THEN Spaces(DEFAULT_JSON_INDENT)
                                ELSE document.indent]_vars

\* C15: in a run of the analyze command the manifest is edited only after
\* the analysis returned a result with a runtime range and the user chose
\* "Update package.json"; without a result, without dependencies, without
\* a runtime range or with the dialog dismissed no edit is applied.
C15_EditOnlyOnRequest ==
    /\ edits # <<>> =>
          /\ pc = "done"
          /\ returned = "result"
          /\ result.note = NoNote
          /\ result.minNode # null
          /\ result.maxNode # null
          /\ selection = ACTION_BUTTON_UPDATE_PACKAGE_JSON
          /\ cmdPc = "updating"
    /\ updateRequests > 0 => selection = ACTION_BUTTON_UPDATE_PACKAGE_JSON
    /\ cmdPc \in {"no-folder", "finished"} => edits = <<>> /\ updateRequests = 0
    /\ (cmdPc = "finished" /\ returned = "result" /\ result.minNode # null) =>
          selection = Dismissed

\* C15 witness: the user chose the update button under a recommendation and
\* the manifest was rewritten with the recommended runtime range.
C15_Witness ==
    /\ cmdPc = "updating"
    /\ selection = ACTION_BUTTON_UPDATE_PACKAGE_JSON
    /\ Len(edits) = 1
    /\ result.minNode # null
    /\ Last(edits).engines.node = nodeEngineString

\* No folder from the uri argument, none from the active editor, and no
\* workspace folders.
NoFolderAvailable(env) ==
    /\ env.uri # "folder"
    /\ env.editor # "inside"
    /\ env.folders = "none"

\* The handler's step on a workspace without any folder.
C16_Step ==
    (cmdPc = "invoked" /\ cmdPc' # "invoked" /\ NoFolderAvailable(workspaceEnv)) =>
        /\ cmdPc' = "no-folder"
        /\ workspaceFolder' = undefined
        /\ errorMessages' = <<NO_WORKSPACE_FOLDER>>

\* A command that found no folder never ran the analysis.
C16_Final ==
    cmdPc = "no-folder" =>
        /\ errorMessages = <<NO_WORKSPACE_FOLDER>>
        /\ progressLog = <<>>
        /\ pc = "idle"
        /\ returned = "none"
        /\ lookups = <<>>
        /\ infoMessages = <<>>
        /\ edits = <<>>

InsideDependencyBlock(lines, line) ==
    /\ lines[line] = "entry"
    /\ \E k \in 1..(line - 1) :
          /\ lines[k] = "depkey"
          /\ \A j \in (k + 1)..(line - 1) : lines[j] = "entry"

\* Scanning upward from the line meets an opening-brace line before any
\* dependency-key line.
BraceBeforeDependencyKey(lines, line) ==
    /\ ~HasDependencyKey(lines[line])
    /\ \E k \in 1..(line - 1) :
          /\ lines[k] = "open"
          /\ \A j \in (k + 1)..(line - 1) : lines[j] # "depkey"

\* The markdown holds a link to the command.
LinksToCommand(markdown) ==
    \E i \in DOMAIN markdown :
        markdown[i].href = "command:" \o COMMAND_ID_ANALYZE_DEPENDENCIES

\* C17: provideHover returns a trusted Hover whose content links to the
\* analysis command when the position is on a "name": "value" entry inside a
\* dependencies, devDependencies or peerDependencies block, and null when no
\* entry is matched at the position or when scanning upward reaches an
\* opening-brace line before any dependency-key line.
C17_HoverLinksToCommand ==
    hoverPc = "returned" =>
        /\ (hoverPosition.onEntry
              /\ InsideDependencyBlock(hoverLines, hoverPosition.line)) =>
              /\ hoverResult # JsNull
              /\ hoverResult.contents.isTrusted
              /\ hoverResult.range = hoverPosition.line
              /\ LinksToCommand(hoverResult.contents.value)
        /\ ~hoverPosition.onEntry => hoverResult = JsNull
        /\ BraceBeforeDependencyKey(hoverLines, hoverPosition.line) =>
              hoverResult = JsNull

\* Readable metadata without an engines field.
NoEnginesField(meta) == meta.read = "ok" /\ ~meta.hasEngines

\* Readable metadata with an engines object that has neither entry.
EmptyEnginesObject(meta) ==
    meta.read = "ok" /\ meta.hasEngines /\ meta.node = Absent /\ meta.npm = Absent

\* One loop pass of the collector that read the metadata and went on.
Collected == lookups' # lookups /\ pc' = "collecting"

\* What unavailable metadata contributes (C6).
ContributesDefault ==
    /\ allNodeRanges' = Append(allNodeRanges, DEFAULT_NODE_VERSION_RANGE)
    /\ allNpmRanges' = allNpmRanges

\* C18 as stated: readable metadata that declares no constraint for any
\* kind (no engines field, or an engines object without node and npm
\* entries) contributes the default runtime constraint, as unavailable
\* metadata does.
C18_NoConstraintsContributesDefault ==
    [][ (/\ Collected
         /\ \/ NoEnginesField(Last(lookups').meta)
            \/ EmptyEnginesObject(Last(lookups').meta)) => ContributesDefault ]_vars

\* C18 amended: readable metadata without an engines field contributes the
\* default runtime constraint and nothing to the package-manager list, as
\* unavailable metadata does; readable metadata whose engines object has
\* neither a node nor an npm entry contributes nothing to either list.
C18_NoEnginesFieldContributesDefault ==
    [][ /\ (Collected /\ NoEnginesField(Last(lookups').meta)) => ContributesDefault
        /\ (Collected /\ EmptyEnginesObject(Last(lookups').meta)) =>
              /\ allNodeRanges' = allNodeRanges
              /\ allNpmRanges' = allNpmRanges ]_vars

\* C18 witness: the collector has read one dependency without an engines
\* field and one with an empty engines object, and holds one default.
C18_Witness ==
    /\ pc = "collecting"
    /\ Len(lookups) = 2
    /\ NoEnginesField(lookups[1].meta)
    /\ EmptyEnginesObject(lookups[2].meta)
    /\ allNodeRanges = <<DEFAULT_NODE_VERSION_RANGE>>
    /\ allNpmRanges = <<>>

\* The dependencies the collector has processed: every lookup but one whose
\* read threw.
Processed ==
    IF thrown = "dependency-parse"
    THEN SubSeq(lookups, 1, Len(lookups) - 1)
    ELSE lookups

\* Readable metadata with an engines object that has no node entry.
EnginesWithoutNode(meta) ==
    meta.read = "ok" /\ meta.hasEngines /\ meta.node = Absent

\* C19 as stated: once the collector has processed a dependency the runtime
\* list is non-empty, whatever the metadata of the processed dependencies.
C19_RuntimeListNonEmpty ==
    Len(Processed) >= 1 => allNodeRanges # <<>>

\* C19 amended: once the collector has processed a dependency the runtime
\* list is non-empty, unless every processed dependency has an engines
\* object without a node entry (an empty one, or one that declares only a
\* package-manager constraint); the list is then empty.
C19_RuntimeListNonEmptyUnlessNoNode ==
    Len(Processed) >= 1 =>
        (allNodeRanges = <<>> <=>
            \A i \in DOMAIN Processed : EnginesWithoutNode(Processed[i].meta))

\* C19 witness: two dependencies processed, the first declaring only a
\* package-manager constraint, the second without an engines field; the
\* runtime list holds the default of the second.
C19_Witness ==
    /\ Len(Processed) = 2
    /\ EnginesWithoutNode(Processed[1].meta)
    /\ Processed[1].meta.npm # Absent
    /\ NoEnginesField(Processed[2].meta)
    /\ allNodeRanges = <<DEFAULT_NODE_VERSION_RANGE>>
    /\ Len(allNpmRanges) = 1

\* The constraint list and the catalog the resolver uses for a kind.
KindRanges(kind) == IF kind = "node" THEN allNodeRanges ELSE allNpmRanges

KindCatalog(kind) ==
    IF kind = "node" THEN COMMON_NODEJS_VERSIONS(impl)
    ELSE COMMON_NPM_VERSIONS(impl)

\* The distinct malformed constraints the resolver of the kind tested
\* against some catalog version.
MalformedEncountered(kind) ==
    { KindRanges(kind)[FirstUnsatisfied(KindCatalog(kind)[v], KindRanges(kind))] :
        v \in { w \in DOMAIN KindCatalog(kind) :
                  /\ FirstUnsatisfied(KindCatalog(kind)[w], KindRanges(kind)) # 0
                  /\ ~ValidRange(KindRanges(kind)
                        [FirstUnsatisfied(KindCatalog(kind)[w], KindRanges(kind))]) } }

\* The diagnostics emitted for a constraint of a kind.
DiagnosticsFor(kind, rangeStr) ==
    { i \in DOMAIN warnings :
        warnings[i].kind = kind /\ warnings[i].range = rangeStr }

\* C20: during the resolution of one engine kind the diagnostic for a
\* malformed constraint is emitted once per distinct malformed constraint,
\* not once per catalog version tested against it.
C20_OneDiagnosticPerMalformedConstraint ==
    pc = "done" =>
        \A kind \in {"node", "npm"} :
            \A rangeStr \in MalformedEncountered(kind) :
                Cardinality(DiagnosticsFor(kind, rangeStr)) = 1

\* The three terminal states of a run.
TerminalStates == {"done", "manifest-not-found", "no-dependencies"}

\* The run has ended: it returned or threw.
Terminated == returned # "none"

\* The resolution of the ranges has started: its tick was issued.
ResolutionStarted ==
    \E i \in DOMAIN progressLog : progressLog[i].message = "calculating"

\* The names looked up so far, in order.
LookedUp == [i \in DOMAIN lookups |-> lookups[i].dep]

\* The steps of the path to done, in their order: the manifest was located,
\* the dependencies merged, each distinct name looked up once in iteration
\* order, and the resolution began after the last of them.
OrderedSteps ==
    /\ (pc \in {"manifest-located", "collecting", "done"}) => manifest.status = "ok"
    /\ (pc \in {"collecting", "done"}) =>
          /\ dependencies = MergeKeys(manifest.deps, manifest.devDeps)
          /\ LookedUp = SubSeq(dependencies, 1, Len(lookups))
    /\ ResolutionStarted => LookedUp = dependencies
    /\ pc = "done" => ResolutionStarted /\ result.note = NoNote

\* C21: every analyze run terminates in exactly one of done,
\* manifest-not-found and no-dependencies, and on the path to done the
\* manifest is located, the dependencies are merged, there is one metadata
\* lookup per distinct dependency name in iteration order, and resolution
\* starts only after the last dependency has been processed.
C21_ThreeTerminalStatesInOrder ==
    /\ Terminated => pc \in TerminalStates
    /\ OrderedSteps

\* The ticks of a complete run over n dependencies.
ExpectedTicks(n) ==
    << Tick("scanning", 10, 1) >>
    \o [i \in 1..n |-> Tick("analyzing", i * 80, n)]
    \o << Tick("calculating", 90, 1), Tick("done", 100, 1) >>

C23_SinkFailureNeverAborts ==
    /\ thrown # "sink"
    /\ (Terminated /\ Len(dependencies) >= 1 /\ thrown = "none") =>
          /\ pc = "done"
          /\ returned = "result"

\* The rearrangements of a list.
PermutationsOf(raw) ==
    { [i \in DOMAIN raw |-> raw[f[i]]] : f \in Permutations(DOMAIN raw) }

\* Filtered and ascending: only valid entries, none above its successor.
FilteredAscending(catalog) ==
    /\ \A i \in DOMAIN catalog : valid(catalog[i]) # null
    /\ \A i \in 1..(Len(catalog) - 1) :
          compare(valid(catalog[i]), valid(catalog[i + 1])) <= 0

C25_ResolverOrderIndependent ==
    pc = "done" =>
        /\ \A nodeRanges \in PermutationsOf(allNodeRanges) :
              calculateNodeRange(COMMON_NODEJS_VERSIONS(impl), nodeRanges,
                                 Len(dependencies) > 0)
                  = [min |-> result.minNode, max |-> result.maxNode]
        /\ \A npmRanges \in PermutationsOf(allNpmRanges) :
              calculateNpmRange(COMMON_NPM_VERSIONS(impl), npmRanges)
                  = [min |-> result.minNpm, max |-> result.maxNpm]

\* C25 witness: a finished run over two dependencies with different runtime
\* constraints and a resolved runtime range.
C25_Witness ==
    /\ pc = "done"
    /\ Len(allNodeRanges) = 2
    /\ allNodeRanges[1] # allNodeRanges[2]
    /\ ValidRange(allNodeRanges[1]) /\ ValidRange(allNodeRanges[2])
    /\ allNodeRanges[1] # DEFAULT_NODE_VERSION_RANGE
    /\ allNodeRanges[2] # DEFAULT_NODE_VERSION_RANGE
    /\ result.minNode # null

\* The metadata of the dependencies read, in order.
MetadataRead == [i \in DOMAIN lookups |-> lookups[i].meta]

RECURSIVE CollectNodeRanges(_)
\* The runtime list the collector builds from a sequence of metadata.
CollectNodeRanges(metas) ==
    IF metas = <<>> THEN <<>>
    ELSE PushNodeRange(CollectNodeRanges(SubSeq(metas, 1, Len(metas) - 1)),
                       Last(metas))

RECURSIVE CollectNpmRanges(_)
\* The package-manager list the collector builds from a sequence of metadata.
CollectNpmRanges(metas) ==
    IF metas = <<>> THEN <<>>
    ELSE PushNpmRange(CollectNpmRanges(SubSeq(metas, 1, Len(metas) - 1)),
                      Last(metas))

\* Metadata that differs from meta in nothing but the runtime constraint it
\* declares.
RuntimeVariants(meta) ==
    { other \in DepMetadata :
        /\ other.read = meta.read
        /\ other.npm = meta.npm
        /\ (meta.read = "ok" /\ meta.npm = Absent /\ meta.node = Absent) =>
              other.hasEngines = meta.hasEngines \/ other.node # Absent }

\* Metadata that differs from meta in nothing but the value of the
\* package-manager constraint it declares.
PackageManagerVariants(meta) ==
    { other \in DepMetadata :
        /\ other.read = meta.read
        /\ other.hasEngines = meta.hasEngines
        /\ other.node = meta.node
        /\ (other.npm = Absent) <=> (meta.npm = Absent) }

\* The variants of a metadata that leave the given kind alone.
VariantsKeeping(kind, meta) ==
    IF kind = "npm" THEN RuntimeVariants(meta) ELSE PackageManagerVariants(meta)

RECURSIVE VariantsOfAll(_, _)
\* The sequences of metadata, each a variant of the one read in its place.
VariantsOfAll(metas, kind) ==
    IF metas = <<>> THEN {<<>>}
    ELSE { Append(front, other) :
             front \in VariantsOfAll(SubSeq(metas, 1, Len(metas) - 1), kind),
             other \in VariantsKeeping(kind, Last(metas)) }

\* C26: the two engine kinds are never mixed: an analysis that differs from
\* the finished one only in the runtime constraints the dependencies
\* declare collects the same package-manager list, and one that differs
\* only in the values of the package-manager constraints collects the same
\* runtime list; each resolved range is that of its own list.
C26_KindsNeverMixed ==
    pc = "done" =>
        /\ \A metas \in VariantsOfAll(MetadataRead, "npm") :
              CollectNpmRanges(metas) = allNpmRanges
        /\ calculateNpmRange(COMMON_NPM_VERSIONS(impl), allNpmRanges)
              = [min |-> result.minNpm, max |-> result.maxNpm]
        /\ \A metas \in VariantsOfAll(MetadataRead, "node") :
              CollectNodeRanges(metas) = allNodeRanges
        /\ calculateNodeRange(COMMON_NODEJS_VERSIONS(impl), allNodeRanges,
                              Len(dependencies) > 0)
              = [min |-> result.minNode, max |-> result.maxNode]

\* C26 witness: a finished run over a dependency that declares both kinds
\* and one that declares only a runtime constraint, with both ranges
\* resolved.
C26_Witness ==
    /\ pc = "done"
    /\ Len(lookups) = 2
    /\ lookups[1].meta.node = Range18to20 /\ lookups[1].meta.npm = Npm10to11
    /\ lookups[2].meta.node = Range18or22 /\ lookups[2].meta.npm = Absent
    /\ result.minNode # null
    /\ result.minNpm # null

\* What a call returns when it runs alone: both ranges resolved from the
\* constraints of the metadata it read, against the analyzer's catalogs.
ResultAlone(i, metas, hasDependencies) ==
    LET node == calculateNodeRange(COMMON_NODEJS_VERSIONS(i),
                                   CollectNodeRanges(metas), hasDependencies)
        npm  == calculateNpmRange(COMMON_NPM_VERSIONS(i), CollectNpmRanges(metas))
    IN  [minNode |-> node.min, maxNode |-> node.max,
         minNpm |-> npm.min, maxNpm |-> npm.max, note |-> NoNote]

\* C27: two analyze calls that overlap in time share no mutable state:
\* whatever the interleaving of their steps, each call that returns a result
\* returns the one it would return alone, its arrays hold the constraints of
\* the metadata it read itself, and the catalogs stay as they were built.
C27_OverlappingRunsIndependent ==
    /\ catalogs = ModuleCatalogs(impl)
    /\ \A r \in RunIds :
          /\ runs[r].pc = "collecting" =>
                /\ arrays[ArraysOf(r)].node = CollectNodeRanges(runs[r].metas)
                /\ arrays[ArraysOf(r)].npm = CollectNpmRanges(runs[r].metas)
          /\ runs[r].pc = "done" =>
                runs[r].result =
                    ResultAlone(impl, runs[r].metas,
                                Len(runs[r].dependencies) > 0)

\* C27 witness: the first call has returned its resolved ranges while the
\* second, started before that, is between its loop and its resolution with
\* other constraints in its arrays.
C27_Witness ==
    /\ runs[1].pc = "done"
    /\ runs[1].result.minNode # null
    /\ runs[2].pc = "collecting"
    /\ runs[2].depCount = 1
    /\ arrays[1].node # <<>>
    /\ arrays[2].node # <<>>
    /\ arrays[1].node # arrays[2].node

\* determineWorkspaceFolder has returned.
FolderDetermined == cmdPc = "invoked" /\ cmdPc' # "invoked"

\* What showWorkspaceFolderPick returns in the environment.
PickerResult(env) ==
    IF env.pick = "picked" THEN "picked-folder" ELSE undefined

\* C28: invoked without a URI and without an active editor while workspace
\* folders exist, the command shows the workspace-folder picker exactly once
\* and analyzes the folder it returns; a directory URI, when given, takes
\* precedence, and the active editor's folder is used only when no URI was
\* given.
C28_FolderPickerShownOnce ==
    [][ FolderDetermined =>
          /\ (/\ workspaceEnv.uri = "none"
              /\ workspaceEnv.editor = "none"
              /\ workspaceEnv.folders # "none") =>
                /\ folderPicks' = 1
                /\ workspaceFolder' = PickerResult(workspaceEnv)
          /\ workspaceEnv.uri = "folder" => workspaceFolder' = "uri-folder"
          /\ workspaceEnv.uri # "none" => workspaceFolder' # "editor-folder" ]_vars

\* One manifest update that signals success: the "has been updated"
\* message, or the service returning true.
SignalsSuccess ==
    /\ updateRequests' < updateRequests
    /\ \/ /\ infoMessages' # infoMessages
          /\ Last(infoMessages') = UPDATE_SUCCESS
       \/ updateReturned' = "true"

\* C29: the manifest update signals success (the "has been updated"
\* message, or updateEngines returning true) only when the edit was applied
\* to the document: when applyEdit resolves to false no success is
\* signalled.
C29_SuccessOnlyWhenApplied ==
    [][SignalsSuccess =>
          /\ applyResults' # applyResults
          /\ Last(applyResults')
          /\ document' = Last(edits')]_vars

\* One manifest update of a document that cannot be opened or parsed.
FailingUpdate ==
    /\ updateRequests' < updateRequests
    /\ ~document.opens \/ ~document.parsable

\* What an update of such a document does.
C30_Step ==
    FailingUpdate =>
        /\ edits' = edits
        /\ applyResults' = applyResults
        /\ document' = document
        /\ infoMessages' = infoMessages
        /\ Len(errorMessages') = Len(errorMessages) + 1
        /\ impl = "helper" =>
              /\ Last(errorMessages') = UPDATE_FAILED
              /\ updateReturned' = "undefined"
        /\ impl = "service" => updateReturned' = "throw"

\* After updates of such a document only: nothing edited, nothing signalled.
C30_Final ==
    (~document.opens \/ ~document.parsable) =>
        /\ edits = <<>>
        /\ infoMessages = <<>>
        /\ (impl = "service" /\ updateReturned # "none") =>
              updateReturned = "throw"

\* C30: when the manifest document cannot be opened or its text is not
\* JSON the update applies no edit and leaves the document unchanged,
\* signals neither "updated" nor "already up-to-date", and surfaces the
\* failure: an error message without throwing in updatePackageJsonEngines
\* and updateVersionRanges, a thrown Error in
\* PackageJsonService.updateEngines.
C30_FailureSurfacedWithoutEdit == [][C30_Step]_vars /\ []C30_Final

\* C30 witness: the service threw on a document that did not open.
C30_Witness ==
    /\ impl = "service"
    /\ ~document.opens
    /\ updateReturned = "throw"
    /\ Len(errorMessages) = 1
    /\ edits = <<>>

====
